---- MODULE Spec2Model ----
(***************************************************************************)
(* A model of the Go port of Gem::Version and Gem::Requirement             *)
(* (github.com/robicode/version).                                          *)
(*                                                                         *)
(* A Go string is a sequence of one-character strings, so that parsing,    *)
(* trimming, replacing and segmenting are computed character by character  *)
(* as the library computes them.  A *Version is Nil or a record            *)
(* [version |-> <string>]; every value the client holds is a record.       *)
(***************************************************************************)
EXTENDS Integers, Sequences, FiniteSets, TLC

VARIABLES
    input,    \* the string handed to version.New for the receiver
    other,    \* the string handed to version.New for the argument
    reqStrs,  \* the strings handed to requirement.New
    v,        \* the receiver *Version (Nil until constructed)
    o,        \* the argument *Version (Nil until constructed)
    req,      \* the *Requirement (Nil until constructed)
    call,     \* the last completed call
    ret,      \* what the last completed call returned
    defaultRequirement,            \* the package variable defaultRequirement
    defaultPrereleaseRequirement   \* the package variable defaultPrereleaseRequirement

vars == <<input, other, reqStrs, v, o, req, call, ret,
          defaultRequirement, defaultPrereleaseRequirement>>

\* A nil pointer, a nil error, no value.
Nil == [nil |-> TRUE]

-----------------------------------------------------------------------------
(* Bounds of the model.                                                    *)

MaxLen == 5

MaxPairLen == 3

MaxReqs == 2

-----------------------------------------------------------------------------
(* Characters.                                                             *)

Digits == {"0", "1", "2", "3", "4", "5", "6", "7", "8", "9"}

Letters ==
    {"a", "b", "c", "d", "e", "f", "g", "h", "i", "j", "k", "l", "m",
     "n", "o", "p", "q", "r", "s", "t", "u", "v", "w", "x", "y", "z",
     "A", "B", "C", "D", "E", "F", "G", "H", "I", "J", "K", "L", "M",
     "N", "O", "P", "Q", "R", "S", "T", "U", "V", "W", "X", "Y", "Z"}

\* [0-9a-zA-Z]
Alnum == Digits \cup Letters

\* [0-9a-zA-Z-]
AlnumDash == Alnum \cup {"-"}

\* \s of Go's regexp syntax: [\t\n\f\r ]
Space == {" ", "\t", "\n", "\f", "\r"}

\* All strings over alphabet of length at most n.
RECURSIVE StringsUpTo(_, _)
StringsUpTo(alphabet, n) ==
    IF n = 0 THEN {<<>>}
    ELSE LET shorter == StringsUpTo(alphabet, n - 1)
         IN  shorter \cup {Append(s, c) : s \in shorter, c \in alphabet}

\* strings.Join(elems, sep)
RECURSIVE Join(_, _)
Join(elems, sep) ==
    IF Len(elems) = 0 THEN <<>>
    ELSE IF Len(elems) = 1 THEN elems[1]
    ELSE elems[1] \o sep \o Join(Tail(elems), sep)

\* regexp.MustCompile(`[a-zA-Z]+`).MatchString(s): s holds a letter.
HasLetter(s) == \E i \in 1..Len(s) : s[i] \in Letters

-----------------------------------------------------------------------------
(* Regular expressions, matched as sets of end positions: a position is    *)
(* the number of characters consumed.                                      *)

\* The positions after one or more characters of class cls, from p.
RunFrom(s, p, cls) ==
    {q \in (p + 1)..Len(s) : \A k \in (p + 1)..q : s[k] \in cls}

\* cls+
PlusSet(s, P, cls) == UNION {RunFrom(s, p, cls) : p \in P}

\* cls*
StarSet(s, P, cls) == P \cup PlusSet(s, P, cls)

\* a literal character
Lit(s, P, c) == {p + 1 : p \in {q \in P : q < Len(s) /\ s[q + 1] = c}}

\* (\.cls+)*
RECURSIVE DotGroups(_, _, _)
DotGroups(s, P, cls) ==
    LET Q == PlusSet(s, Lit(s, P, "."), cls)
    IN  IF Q \subseteq P THEN P ELSE DotGroups(s, P \cup Q, cls)

\* VersionPattern: [0-9]+(\.[0-9a-zA-Z]+)*(-[0-9a-zA-Z-]+(\.[0-9a-zA-Z-]+)*)?
VersionPattern(s, P) ==
    LET release == DotGroups(s, PlusSet(s, P, Digits), Alnum)
        pre     == DotGroups(s, PlusSet(s, Lit(s, release, "-"), AlnumDash),
                             AlnumDash)
    IN  release \cup pre

\* VersionPatternAnchored: \A\s*(VersionPattern)?\s*\z
VersionPatternAnchored(s) ==
    LET lead == StarSet(s, {0}, Space)
        body == lead \cup VersionPattern(s, lead)
    IN  Len(s) \in StarSet(s, body, Space)

\* isCorrect with the unanchored VersionPattern: a match anywhere.
isCorrect_unanchored(version) ==
    \E p \in 0..Len(version) : VersionPattern(version, {p}) # {}

\* isCorrect validates the format of the version string.
isCorrect(version) == VersionPatternAnchored(version)

\* regexp.MustCompile(`/\A\s*\z/`).MatchString(version): the slashes are
\* literal characters of the pattern, so a match needs a '/' that ends
\* at the beginning of the text.
BlankPattern(s) ==
    \E p \in 0..Len(s) :
        LET afterSlash == Lit(s, {p}, "/")
            atStart    == {q \in afterSlash : q = 0}
            blanks     == {q \in StarSet(s, atStart, Space) : q = Len(s)}
        IN  Lit(s, blanks, "/") # {}

-----------------------------------------------------------------------------
(* package version                                                         *)

\* strings.TrimSpace, on the white space a checked version string can hold
RECURSIVE TrimLeft(_)
TrimLeft(s) ==
    IF Len(s) > 0 /\ s[1] \in Space THEN TrimLeft(Tail(s)) ELSE s

RECURSIVE TrimRight(_)
TrimRight(s) ==
    IF Len(s) > 0 /\ s[Len(s)] \in Space
        THEN TrimRight(SubSeq(s, 1, Len(s) - 1))
        ELSE s

TrimSpace(s) == TrimRight(TrimLeft(s))

\* strings.Replace(s, "-", ".pre.", 1): only the first '-' replaced
RECURSIVE ReplaceAllDash_first(_)
ReplaceAllDash_first(s) ==
    IF Len(s) = 0 THEN <<>>
    ELSE IF s[1] = "-" THEN <<".", "p", "r", "e", ".">> \o Tail(s)
    ELSE <<s[1]>> \o ReplaceAllDash_first(Tail(s))

\* strings.ReplaceAll(s, "-", ".pre.")
RECURSIVE ReplaceAllDash(_)
ReplaceAllDash(s) ==
    IF Len(s) = 0 THEN <<>>
    ELSE IF s[1] = "-" THEN <<".", "p", "r", "e", ".">> \o ReplaceAllDash(Tail(s))
    ELSE <<s[1]>> \o ReplaceAllDash(Tail(s))

MalformedVersion(version) ==
    [msg |-> "malformed version number string", arg |-> version]

\* New creates a new *Version with the given version string.
\* Returns [ver, err].
New(version) ==
    IF ~isCorrect(version)
        THEN [ver |-> Nil, err |-> MalformedVersion(version)]
        ELSE [ver |-> [version |->
                          ReplaceAllDash(
                              TrimSpace(IF BlankPattern(version) THEN <<"0">>
                                        ELSE version))],
              err |-> Nil]

\* if err != nil { return nil }; return the version: r is what New returned.
versionOrNil(r) == IF r.err # Nil THEN Nil ELSE r.ver

\* New2 returns a new *Version or nil on error.
New2(version) == versionOrNil(New(version))

\* Version returns the version as a string.
Version(ver) == ver.version

\* The end of the run of characters of class cls that starts at i.
RECURSIVE RunEnd(_, _, _)
RunEnd(s, i, cls) ==
    IF i < Len(s) /\ s[i + 1] \in cls THEN RunEnd(s, i + 1, cls) ELSE i

\* regexp.MustCompile(`[0-9]+|[a-zA-Z]+`).FindAllString(s, -1), from i on
RECURSIVE FindAllSegments(_, _)
FindAllSegments(s, i) ==
    IF i > Len(s) THEN <<>>
    ELSE IF s[i] \in Digits
        THEN LET j == RunEnd(s, i, Digits)
             IN  <<SubSeq(s, i, j)>> \o FindAllSegments(s, j + 1)
    ELSE IF s[i] \in Letters
        THEN LET j == RunEnd(s, i, Letters)
             IN  <<SubSeq(s, i, j)>> \o FindAllSegments(s, j + 1)
    ELSE FindAllSegments(s, i + 1)

\* segments splits the version string into its component parts.
segments(ver) == FindAllSegments(ver.version, 1)

\* IsPrerelease: the version string holds a letter.
IsPrerelease(ver) == HasLetter(ver.version)

DigitChars == <<"0", "1", "2", "3", "4", "5", "6", "7", "8", "9">>

DigitVal(c) == (CHOOSE d \in 1..10 : DigitChars[d] = c) - 1

RECURSIVE DecimalValue(_)
DecimalValue(s) ==
    IF Len(s) = 0 THEN 0
    ELSE 10 * DecimalValue(SubSeq(s, 1, Len(s) - 1)) + DigitVal(s[Len(s)])

\* strconv.Atoi on a segment (no sign): [val, err].  A syntax error gives
\* the value 0.  The segments of the model have at most MaxLen + 1 digits, so
\* the range error of a number beyond 64 bits is outside the model.
Atoi(s) ==
    IF Len(s) = 0 \/ \E i \in 1..Len(s) : s[i] \notin Digits
        THEN [val |-> 0, err |-> TRUE]
        ELSE [val |-> DecimalValue(s), err |-> FALSE]

\* strconv.Itoa of a number that is not negative
RECURSIVE Itoa(_)
Itoa(n) ==
    IF n < 10 THEN <<DigitChars[n + 1]>>
    ELSE Itoa(n \div 10) \o <<DigitChars[(n % 10) + 1]>>

\* for i, segment := range segments {
\*     if <segment holds a letter> { segments = segments[0:i] } }
\* The range is over the slice as it was when the loop began (backing), and
\* segments[0:i] reslices within the capacity of that array: an index
\* beyond the current length is allowed.  len is the current length.
RECURSIVE truncateLoop(_, _, _)
truncateLoop(backing, i, len) ==
    IF i >= Len(backing) THEN SubSeq(backing, 1, len)
    ELSE IF HasLetter(backing[i + 1])
        THEN truncateLoop(backing, i + 1, i)
        ELSE truncateLoop(backing, i + 1, len)

truncateAtLetters(segs) == truncateLoop(segs, 0, Len(segs))

\* Bump: [panic, ver, err].  segments[len(segments)-1] of an empty slice
\* panics (index out of range), and so does a last element that is no int.
\* if len(segments) > 1 { segments = segments[:len(segments)-1] }
dropLast(segs) ==
    IF Len(segs) > 1 THEN SubSeq(segs, 1, Len(segs) - 1) ELSE segs

\* What Bump returns without a panic: r is what New returned.
bumped(r) == [panic |-> FALSE, ver |-> r.ver, err |-> r.err]

\* num = num + 1; segments[len(segments)-1] = strconv.Itoa(num)
\* return New(strings.Join(segments, "."))
\* num is what Atoi returned for the last segment.
bumpLast(segs, num) ==
    IF num.err THEN [panic |-> TRUE, ver |-> Nil, err |-> Nil]
    ELSE bumped(New(Join([segs EXCEPT ![Len(segs)] = Itoa(num.val + 1)],
                         <<".">>)))

\* Bump from the segments that are left.
bumpSegments(segs) ==
    IF Len(segs) = 0 THEN [panic |-> TRUE, ver |-> Nil, err |-> Nil]
    ELSE bumpLast(segs, Atoi(segs[Len(segs)]))

Bump(ver) == bumpSegments(dropLast(truncateAtLetters(segments(ver))))

\* Release: the receiver itself when it is no prerelease.
Release(ver) ==
    IF ~IsPrerelease(ver) THEN ver
    ELSE versionOrNil(New(Join(truncateAtLetters(segments(ver)), <<".">>)))

\* ApproximateRecommendation
ApproximateRecommendation(ver) ==
    LET segs0 == truncateAtLetters(segments(ver))
        segs1 == IF Len(segs0) > 2 THEN SubSeq(segs0, 1, 2) ELSE segs0
        segs2 == IF Len(segs1) < 2 THEN Append(segs1, <<"0">>) ELSE segs1
        recommendation == <<"~", ">", " ">> \o Join(segs2, <<".">>)
    IN  IF IsPrerelease(ver) THEN recommendation \o <<".", "a">>
        ELSE recommendation

\* The index of the first segment that holds a letter, or 0: the loop of
\* splitSegments that sets stringStart.
RECURSIVE firstLetterSegment(_, _)
firstLetterSegment(segs, i) ==
    IF i >= Len(segs) THEN 0
    ELSE IF HasLetter(segs[i + 1]) THEN i
    ELSE firstLetterSegment(segs, i + 1)

\* splitSegments splits the segments into integer and alphanumeric arrays.
\* numericSegments := segments[0:stringStart]
\* stringElements := segments[stringStart:]
splitAt(segs, stringStart) ==
    [numerics  |-> SubSeq(segs, 1, stringStart),
     stringset |-> SubSeq(segs, stringStart + 1, Len(segs))]

\* if stringStart == 0 { stringStart = len(segments) }
splitFound(segs, found) ==
    splitAt(segs, IF found = 0 THEN Len(segs) ELSE found)

splitSegments(ver) ==
    splitFound(segments(ver), firstLetterSegment(segments(ver), 0))

\* reverseSlice that leaves the slice in its order
reverseSlice_unreversed(s) == s

\* reverseSlice
reverseSlice(s) == [i \in 1..Len(s) |-> s[Len(s) + 1 - i]]

\* deleteArrayElement deletes the element at index elem (from 0).
deleteArrayElement(arr, elem) ==
    IF Len(arr) = 0 THEN arr
    ELSE SubSeq(arr, 1, elem) \o SubSeq(arr, elem + 2, Len(arr))

\* for _, v := range numerics { value, _ := strconv.Atoi(v)
\*     if value == 0 { numerics = deleteArrayElement(numerics, 0) }
\*     else { break } }
\* ranged is the slice the loop ranges over, cur the variable it assigns.
RECURSIVE stripNumerics(_, _, _)
stripNumerics(ranged, k, cur) ==
    IF k > Len(ranged) THEN cur
    ELSE IF Atoi(ranged[k]).val = 0
        THEN stripNumerics(ranged, k + 1, deleteArrayElement(cur, 0))
        ELSE cur

\* The same loop over stringset, which also breaks on an Atoi error.
RECURSIVE stripStringset(_, _, _)
stripStringset(ranged, k, cur) ==
    IF k > Len(ranged) THEN cur
    ELSE IF Atoi(ranged[k]).err THEN cur
    ELSE IF Atoi(ranged[k]).val = 0
        THEN stripStringset(ranged, k + 1, deleteArrayElement(cur, 0))
        ELSE cur

\* canonicalSegments is like segments, but with trailing zero segments
\* removed.
flattened(numerics, stringset) ==
    reverseSlice(stripNumerics(numerics, 1, numerics))
        \o reverseSlice(stripStringset(stringset, 1, stringset))

\* split is what splitSegments returned.
canonicalOf(split) ==
    flattened(reverseSlice(split.numerics), reverseSlice(split.stringset))

canonicalSegments(ver) == canonicalOf(splitSegments(ver))

\* extractKind: reflect.String for a string that holds a letter.
extractKind(s) == IF HasLetter(s) THEN "String" ELSE "Int"

\* strArraysEqual
strArraysEqual(sa1, sa2) ==
    /\ Len(sa1) = Len(sa2)
    /\ \A i \in 1..Len(sa1) : sa1[i] = sa2[i]

\* The loop of Compare, from position i on (from 0).
\* if i < lsz { li = l[i] } else { li = "0" }
segmentAt(l, i) == IF i < Len(l) THEN l[i + 1] ELSE <<"0">>

\* One round of the loop of Compare on the segments li and ri; continued is
\* what the rest of the loop returns.
compareSegment(li, ri, continued) ==
    IF li = ri THEN continued
    ELSE IF extractKind(li) = "String" /\ extractKind(ri) = "Int" THEN -1
    ELSE IF extractKind(li) = "Int" /\ extractKind(ri) = "String" THEN 1
    ELSE IF extractKind(li) = "String" /\ extractKind(ri) = "String"
        THEN continued
    ELSE IF Atoi(li).val > Atoi(ri).val THEN 1
    ELSE -1

\* The loop of Compare, from position i on (from 0).
RECURSIVE compareFrom(_, _, _, _)
compareFrom(l, r, i, limit) ==
    IF i > limit THEN 0
    ELSE compareSegment(segmentAt(l, i), segmentAt(r, i),
                        compareFrom(l, r, i + 1, limit))

\* Compare on the canonical segments l of ver and r of oth.
compareCanonical(ver, oth, l, r) ==
    IF ver.version = oth.version \/ strArraysEqual(l, r) THEN 0
    ELSE compareFrom(l, r, 0,
                     (IF Len(l) > Len(r) THEN Len(l) ELSE Len(r)) - 1)

\* Compare returns -1, 0 or 1.
Compare(ver, oth) ==
    compareCanonical(ver, oth, canonicalSegments(ver), canonicalSegments(oth))

\* Eql as equality under Compare
Eql_byCompare(ver, oth) == Compare(ver, oth) = 0

\* Eql: the same version string.
Eql(ver, oth) == ver.version = oth.version

-----------------------------------------------------------------------------
(* package requirement                                                     *)

\* Ops, in the order parse tries them ("Order of operations is important!")
Ops ==
    <<<<"!", "=">>, <<">", "=">>, <<"<", "=">>, <<"~", ">">>,
      <<">">>, <<"<">>, <<"=">>>>

\* ops: the operators of the dispatch table, in its order
ops ==
    <<<<"!", "=">>, <<">", "=">>, <<"<", "=">>, <<"~", ">">>,
      <<">">>, <<"<">>, <<"=">>>>

\* sub occurs in s at position p (characters p+1 .. p+Len(sub))
OccursAt(s, sub, p) ==
    /\ p + Len(sub) <= Len(s)
    /\ \A k \in 1..Len(sub) : s[p + k] = sub[k]

\* strings.Contains(s, sub)
Contains(s, sub) == \E p \in 0..Len(s) : OccursAt(s, sub, p)

\* strings.Replace(s, sub, "", 1): the first occurrence of sub removed
ReplaceFirst(s, sub) ==
    IF ~Contains(s, sub) THEN s
    ELSE LET p == CHOOSE q \in 0..Len(s) :
                      /\ OccursAt(s, sub, q)
                      /\ \A q2 \in 0..(q - 1) : ~OccursAt(s, sub, q2)
         IN  SubSeq(s, 1, p) \o SubSeq(s, p + Len(sub) + 1, Len(s))

\* (!=|>=|<=|~>|>|<|=)
OpToken(s, P) ==
    {pk[1] + Len(Ops[pk[2]]) :
        pk \in {qk \in P \X (1..Len(Ops)) : OccursAt(s, Ops[qk[2]], qk[1])}}

\* pattern: \A\s*(op)?\s*(VersionPattern)\s*\z
pattern(s) ==
    LET lead  == StarSet(s, {0}, Space)
        op    == lead \cup OpToken(s, lead)
        gap   == StarSet(s, op, Space)
        vers  == VersionPattern(s, gap)
    IN  Len(s) \in StarSet(s, vers, Space)

\* A *RequirementSpecifier
Specifier(operator, ver) == [Operator |-> operator, Version |-> ver]

\* The package variables as their initializers leave them at process start.
InitDefaults ==
    /\ defaultRequirement = Specifier(<<">", "=">>, New2(<<"0">>))
    /\ defaultPrereleaseRequirement =
           Specifier(<<">", "=">>, New2(<<"0", ".", "a">>))

\* No function of the package assigns to the package variables or through
\* the pointers DefaultRequirement and DefaultPrereleaseRequirement return.
DefaultsUnassigned ==
    UNCHANGED <<defaultRequirement, defaultPrereleaseRequirement>>

DefaultRequirement == defaultRequirement

DefaultPrereleaseRequirement == defaultPrereleaseRequirement

\* The first operator of Ops that the string contains, and the string
\* without its first occurrence; no parts when it contains none.
RECURSIVE splitOperator(_, _)
splitOperator(requirement, k) ==
    IF k > Len(Ops) THEN <<>>
    ELSE IF Contains(requirement, Ops[k])
        THEN <<Ops[k], ReplaceFirst(requirement, Ops[k])>>
        ELSE splitOperator(requirement, k + 1)

\* The operator of the table that equals op, or the empty string.
RECURSIVE lookupOperator(_, _)
lookupOperator(op, i) ==
    IF i > Len(ops) THEN <<>>
    ELSE IF op = ops[i] THEN ops[i]
    ELSE lookupOperator(op, i + 1)

\* parse parses requirement, returning [spec, err].
parse(requirement) ==
    IF ~pattern(requirement)
        THEN [spec |-> Nil,
              err |-> [msg |-> "unable to parse requirement", arg |-> requirement]]
    ELSE LET parts == splitOperator(requirement, 1)
         IN  IF Len(parts) # 2
                 THEN [spec |-> Nil,
                       err |-> [msg |-> "requirement should be an operator and version",
                                arg |-> <<>>]]
             ELSE LET operator == lookupOperator(parts[1], 1)
                  IN  IF operator = <<>>
                          THEN [spec |-> Nil,
                                err |-> [msg |-> "invalid operator", arg |-> operator]]
                      ELSE IF operator = <<">", "=">> /\ parts[2] = <<"0">>
                          THEN [spec |-> DefaultRequirement, err |-> Nil]
                      ELSE IF operator = <<">", "=">> /\ parts[2] = <<"0", ".", "a">>
                          THEN [spec |-> DefaultPrereleaseRequirement, err |-> Nil]
                      ELSE LET r == New(parts[2])
                           IN  IF r.err # Nil
                                   THEN [spec |-> Nil, err |-> r.err]
                                   ELSE [spec |-> Specifier(operator, r.ver),
                                         err |-> Nil]

\* The loop of requirement.New: [req, err], reqs being the specifiers
\* parsed so far.
RECURSIVE newLoop(_, _, _)
newLoop(requirements, i, reqs) ==
    IF i > Len(requirements)
        THEN [req |-> [requirements |-> reqs], err |-> Nil]
    ELSE LET r == parse(requirements[i])
         IN  IF r.err # Nil THEN [req |-> Nil, err |-> r.err]
             ELSE newLoop(requirements, i + 1, Append(reqs, r.spec))

\* requirement.New
RequirementNew(requirements) == newLoop(requirements, 1, <<>>)

\* Requirement operators
equals(rs, ver) == Compare(rs.Version, ver) = 0

notEquals(rs, ver) == Compare(rs.Version, ver) # 0

\* greaterThan with the comparison the other way round
greaterThan_swapped(rs, ver) == Compare(rs.Version, ver) = 1

greaterThan(rs, ver) == Compare(rs.Version, ver) = -1

lessThan(rs, ver) == Compare(rs.Version, ver) = 1

gte(rs, ver) == Compare(rs.Version, ver) = 0 \/ Compare(rs.Version, ver) = -1

lte(rs, ver) == Compare(rs.Version, ver) = 0 \/ Compare(rs.Version, ver) = 1

\* What a call that may panic returns.
Returned(b) == [panic |-> FALSE, bool |-> b]

Panicked == [panic |-> TRUE, bool |-> FALSE]

\* tildeGT: r, _ := rs.Version.Bump()
\*          return gte(rs, v) && r.Release().Compare(v) == 1
\* Bump may panic; a method called on a nil *Version panics when it reads
\* the version string.
belowRelease(release, ver) ==
    IF release = Nil THEN Panicked
    ELSE Returned(Compare(release, ver) = 1)

\* b is what Bump returned.
tildeBumped(rs, ver, b) ==
    IF b.panic THEN Panicked
    ELSE IF ~gte(rs, ver) THEN Returned(FALSE)
    ELSE IF b.ver = Nil THEN Panicked
    ELSE belowRelease(Release(b.ver), ver)

tildeGT(rs, ver) == tildeBumped(rs, ver, Bump(rs.Version))

\* The Func of the dispatch table for operator op.
opFunc(op, rs, ver) ==
    IF op = <<"!", "=">> THEN Returned(notEquals(rs, ver))
    ELSE IF op = <<">", "=">> THEN Returned(gte(rs, ver))
    ELSE IF op = <<"<", "=">> THEN Returned(lte(rs, ver))
    ELSE IF op = <<"~", ">">> THEN tildeGT(rs, ver)
    ELSE IF op = <<">">> THEN Returned(greaterThan(rs, ver))
    ELSE IF op = <<"<">> THEN Returned(lessThan(rs, ver))
    ELSE Returned(equals(rs, ver))

\* The loop of RequirementSpecifier.IsSatisfiedBy over the dispatch table.
\* One round of either loop: a panic ends the call, `if !... { return false }`
\* ends it with false, and otherwise the loop goes on.
falseOrContinue(r, rest) ==
    IF r.panic THEN Panicked
    ELSE IF ~r.bool THEN Returned(FALSE)
    ELSE rest

RECURSIVE specifierLoop(_, _, _)
specifierLoop(rs, ver, i) ==
    IF i > Len(ops) THEN Returned(TRUE)
    ELSE IF ops[i] = rs.Operator
        THEN falseOrContinue(opFunc(ops[i], rs, ver),
                             specifierLoop(rs, ver, i + 1))
        ELSE specifierLoop(rs, ver, i + 1)

\* RequirementSpecifier.IsSatisfiedBy
SpecifierIsSatisfiedBy(rs, ver) == specifierLoop(rs, ver, 1)

\* The loop of Requirement.IsSatisfiedBy.
RECURSIVE satisfiedLoop(_, _, _)
satisfiedLoop(reqs, ver, i) ==
    IF i > Len(reqs) THEN Returned(TRUE)
    ELSE falseOrContinue(SpecifierIsSatisfiedBy(reqs[i], ver),
                         satisfiedLoop(reqs, ver, i + 1))

\* Requirement.IsSatisfiedBy
IsSatisfiedBy(r, ver) == satisfiedLoop(r.requirements, ver, 1)

\* What Concat did: failed when it returned nil, and the specifiers the
\* receiver holds afterwards (append has changed the receiver before a
\* later round returns nil).
Concatenated(failed, requirements) ==
    [failed |-> failed, requirements |-> requirements]

\* The inner loop of Concat for one requirement string: ranged is
\* r.requirements as it was when the loop began, cur what r.requirements is
\* now, parsed what parse returns for the string (it is parsed again in
\* every round, and only there).
RECURSIVE concatRegistered(_, _, _, _)
concatRegistered(ranged, k, parsed, cur) ==
    IF k > Len(ranged) THEN Concatenated(FALSE, cur)
    ELSE IF parsed.err # Nil THEN Concatenated(TRUE, cur)
    ELSE IF \/ ranged[k].Operator = parsed.spec.Operator
            \/ Compare(parsed.spec.Version, ranged[k].Version) = 0
        THEN concatRegistered(ranged, k + 1, parsed, cur)
    ELSE concatRegistered(ranged, k + 1, parsed, Append(cur, parsed.spec))

\* The outer loop of Concat, from string j on; done is what the loop has
\* done so far, parsedAll what parse returns for each string.
RECURSIVE concatLoop(_, _, _)
concatLoop(parsedAll, j, done) ==
    IF done.failed \/ j > Len(parsedAll) THEN done
    ELSE concatLoop(parsedAll, j + 1,
                    concatRegistered(done.requirements, 1, parsedAll[j],
                                     done.requirements))

\* Requirement.Concat
Concat(r, requirements) ==
    concatLoop([j \in 1..Len(requirements) |-> parse(requirements[j])], 1,
               Concatenated(FALSE, r.requirements))

\* IsSpecific that tests '>' only
IsSpecific_greaterOnly(r) ==
    IF Len(r.requirements) > 1 THEN TRUE
    ELSE IF Len(r.requirements) > 0
        THEN r.requirements[1].Operator # <<">">>
    ELSE TRUE

\* Requirement.IsSpecific
IsSpecific(r) ==
    IF Len(r.requirements) > 1 THEN TRUE
    ELSE IF Len(r.requirements) > 0
        THEN /\ r.requirements[1].Operator # <<">">>
             /\ r.requirements[1].Operator # <<">", "=">>
    ELSE TRUE

-----------------------------------------------------------------------------
(* package requirement as src/requirement/requirement.go has it: parse is  *)
(* a method that splits the string at its spaces.  Ops and ops list the    *)
(* same operators in another order, which the pattern, the lookup by       *)
(* equality and the dispatch loop do not depend on.                        *)

\* strings.Split(s, sep) for a separator of one character: the parts from
\* character i on, part being the part that has begun.
RECURSIVE splitFrom(_, _, _, _)
splitFrom(s, sep, i, part) ==
    IF i > Len(s) THEN <<part>>
    ELSE IF s[i] = sep THEN <<part>> \o splitFrom(s, sep, i + 1, <<>>)
    ELSE splitFrom(s, sep, i + 1, Append(part, s[i]))

Split(s, sep) == splitFrom(s, sep, 1, <<>>)

\* The end of parse, from the operator that was looked up on.
Requirement_parseOperator(parts, operator) ==
    IF operator = <<>>
        THEN [spec |-> Nil, err |-> [msg |-> "invalid operator", arg |-> operator]]
    ELSE IF operator = <<">", "=">> /\ parts[2] = <<"0">>
        THEN [spec |-> DefaultRequirement, err |-> Nil]
    ELSE IF operator = <<">", "=">> /\ parts[2] = <<"0", ".", "a">>
        THEN [spec |-> DefaultPrereleaseRequirement, err |-> Nil]
    ELSE [spec |-> Specifier(operator, New2(parts[2])), err |-> Nil]

\* parse from the parts of the split on.
Requirement_parseParts(parts) ==
    IF Len(parts) # 2
        THEN [spec |-> Nil,
              err |-> [msg |-> "requirement should be an operator and version",
                       arg |-> <<>>]]
    ELSE Requirement_parseOperator(parts, lookupOperator(parts[1], 1))

\* (r *Requirement) parse
Requirement_parse(requirement) ==
    IF ~pattern(requirement)
        THEN [spec |-> Nil,
              err |-> [msg |-> "unable to parse requirement", arg |-> requirement]]
    ELSE Requirement_parseParts(Split(requirement, " "))

\* One round of the loop of New: parsed is what ret.parse returned, rest
\* what the loop returns when it goes on.
Requirement_newRound(parsed, rest) ==
    IF parsed.err # Nil THEN [req |-> Nil, err |-> parsed.err] ELSE rest

RECURSIVE Requirement_newLoop(_, _, _)
Requirement_newLoop(requirements, i, reqs) ==
    IF i > Len(requirements)
        THEN [req |-> [requirements |-> reqs], err |-> Nil]
    ELSE Requirement_newRound(
             Requirement_parse(requirements[i]),
             Requirement_newLoop(requirements, i + 1,
                 Append(reqs, Requirement_parse(requirements[i]).spec)))

\* requirement.New
Requirement_New(requirements) == Requirement_newLoop(requirements, 1, <<>>)

\* Requirement.Concat
Requirement_Concat(r, requirements) ==
    concatLoop([j \in 1..Len(requirements) |->
                   Requirement_parse(requirements[j])], 1,
               Concatenated(FALSE, r.requirements))

-----------------------------------------------------------------------------
(* The program: a client of the library.                                   *)

Alphabet == {"0", "1", "a", "-", ".", " "}

\* The version strings of the package's tests.
TestInputs ==
    {<<"1">>,
     <<"1", ".", "2">>,
     <<"1", ".">>,
     <<"1", ".", "3", ".", "1">>,
     <<"1", ".", "5", "-">>,
     <<"2", ".", "3", "-", "0", "-", "0">>,
     <<"1", ".", "5", "-", "3">>,
     <<"1", ".", "1", ".", "1", "3", ".", "4", "-", "3">>,
     <<"5", ".", "3", ".", "1", ".", "b", ".", "2">>,
     <<"1", ".", "2", ".", "1", "-", "2">>,
     <<"1", ".", "3", ".", "1", "-", "4">>,
     <<"1", ".", "3", ".", "5", ".", "7">>}

InputStrings == StringsUpTo(Alphabet, MaxLen) \cup TestInputs

Init ==
    /\ input \in InputStrings
    /\ other = <<>>
    /\ reqStrs = <<>>
    /\ v = Nil
    /\ o = Nil
    /\ req = Nil
    /\ call = "none"
    /\ ret = Nil
    /\ InitDefaults

\* A panic ends the program.
Running == ~("panic" \in DOMAIN ret /\ ret.panic)

\* v, err := version.New(input)
CallNew ==
    /\ Running
    /\ v = Nil
    /\ LET r == New(input)
       IN  /\ v' = r.ver
           /\ call' = "New"
           /\ ret' = r
    /\ UNCHANGED <<input, other, reqStrs, o, req>>
    /\ DefaultsUnassigned

\* v := version.New2(input)
CallNew2 ==
    /\ Running
    /\ v = Nil
    /\ v' = New2(input)
    /\ call' = "New2"
    /\ ret' = [ver |-> New2(input)]
    /\ UNCHANGED <<input, other, reqStrs, o, req>>
    /\ DefaultsUnassigned

\* o, err := version.New(other)
CallNewOther ==
    /\ Running
    /\ o = Nil
    /\ LET r == New(other)
       IN  /\ o' = r.ver
           /\ call' = "NewOther"
           /\ ret' = r
    /\ UNCHANGED <<input, other, reqStrs, v, req>>
    /\ DefaultsUnassigned

\* v.Version()
CallVersion ==
    /\ Running
    /\ v # Nil
    /\ call' = "Version"
    /\ ret' = [str |-> Version(v)]
    /\ UNCHANGED <<input, other, reqStrs, v, o, req>>
    /\ DefaultsUnassigned

\* v.segments()
CallSegments ==
    /\ Running
    /\ v # Nil
    /\ call' = "segments"
    /\ ret' = [strs |-> segments(v)]
    /\ UNCHANGED <<input, other, reqStrs, v, o, req>>
    /\ DefaultsUnassigned

\* v.splitSegments()
CallSplitSegments ==
    /\ Running
    /\ v # Nil
    /\ call' = "splitSegments"
    /\ ret' = splitSegments(v)
    /\ UNCHANGED <<input, other, reqStrs, v, o, req>>
    /\ DefaultsUnassigned

\* v.canonicalSegments()
CallCanonicalSegments ==
    /\ Running
    /\ v # Nil
    /\ call' = "canonicalSegments"
    /\ ret' = [strs |-> canonicalSegments(v)]
    /\ UNCHANGED <<input, other, reqStrs, v, o, req>>
    /\ DefaultsUnassigned

\* v.IsPrerelease()
CallIsPrerelease ==
    /\ Running
    /\ v # Nil
    /\ call' = "IsPrerelease"
    /\ ret' = [bool |-> IsPrerelease(v)]
    /\ UNCHANGED <<input, other, reqStrs, v, o, req>>
    /\ DefaultsUnassigned

\* o = v.Release()
CallRelease ==
    /\ Running
    /\ v # Nil
    /\ call' = "Release"
    /\ ret' = [ver |-> Release(v)]
    /\ o' = Release(v)
    /\ UNCHANGED <<input, other, reqStrs, v, req>>
    /\ DefaultsUnassigned

\* Bump that writes the bumped version into its receiver
CallBump_inPlace ==
    /\ Running
    /\ v # Nil
    /\ call' = "Bump"
    /\ ret' = Bump(v)
    /\ v' = IF Bump(v).panic \/ Bump(v).ver = Nil THEN v ELSE Bump(v).ver
    /\ o' = IF Bump(v).panic THEN o ELSE v'
    /\ UNCHANGED <<input, other, reqStrs, req>>
    /\ DefaultsUnassigned

\* o, err = v.Bump()
CallBump ==
    /\ Running
    /\ v # Nil
    /\ call' = "Bump"
    /\ ret' = Bump(v)
    /\ o' = IF Bump(v).panic THEN o ELSE Bump(v).ver
    /\ UNCHANGED <<input, other, reqStrs, v, req>>
    /\ DefaultsUnassigned

\* v.ApproximateRecommendation()
CallApproximateRecommendation ==
    /\ Running
    /\ v # Nil
    /\ call' = "ApproximateRecommendation"
    /\ ret' = [str |-> ApproximateRecommendation(v)]
    /\ UNCHANGED <<input, other, reqStrs, v, o, req>>
    /\ DefaultsUnassigned

\* v.Compare(o)
CallCompare ==
    /\ Running
    /\ v # Nil
    /\ o # Nil
    /\ call' = "Compare"
    /\ ret' = [int |-> Compare(v, o)]
    /\ UNCHANGED <<input, other, reqStrs, v, o, req>>
    /\ DefaultsUnassigned

\* o.Compare(v)
CallCompareOther ==
    /\ Running
    /\ v # Nil
    /\ o # Nil
    /\ call' = "CompareOther"
    /\ ret' = [int |-> Compare(o, v)]
    /\ UNCHANGED <<input, other, reqStrs, v, o, req>>
    /\ DefaultsUnassigned

\* v.Eql(o)
CallEql ==
    /\ Running
    /\ v # Nil
    /\ o # Nil
    /\ call' = "Eql"
    /\ ret' = [bool |-> Eql(v, o)]
    /\ UNCHANGED <<input, other, reqStrs, v, o, req>>
    /\ DefaultsUnassigned

\* One version: every string of the alphabet up to MaxLen is handed to New,
\* and the version's methods are called on the result.
Next ==
    \/ CallNew
    \/ CallNew2
    \/ CallVersion
    \/ CallSegments
    \/ CallSplitSegments
    \/ CallCanonicalSegments
    \/ CallIsPrerelease
    \/ CallRelease
    \/ CallBump
    \/ CallApproximateRecommendation
    \/ CallCompare
    \/ CallCompareOther
    \/ CallEql

Spec == Init /\ [][Next]_vars

\* Two versions: the representative versions of the documentation and
\* every string of the pair alphabet up to MaxPairLen.
PairAlphabet == {"0", "1", "a", "."}

RepresentativeVersions ==
    {<<"0", ".", "9">>,
     <<"1", ".", "0">>,
     <<"1", ".", "0", ".", "a", ".", "2">>,
     <<"1", ".", "0", ".", "b", "1">>}

\* Two versions whose only difference is the spelling of an alphabetic
\* segment: the case of Compare in which both kinds are reflect.String.
TieVersions ==
    {<<"1", ".", "0", ".", "a">>,
     <<"1", ".", "0", ".", "b">>}

PairStrings ==
    StringsUpTo(PairAlphabet, MaxPairLen)
        \cup RepresentativeVersions \cup TieVersions

InitPair ==
    /\ input \in PairStrings
    /\ other \in PairStrings
    /\ reqStrs = <<>>
    /\ v = Nil
    /\ o = Nil
    /\ req = Nil
    /\ call = "none"
    /\ ret = Nil
    /\ InitDefaults

NextPair ==
    \/ CallNew
    \/ CallNewOther
    \/ CallCompare
    \/ CallCompareOther
    \/ CallEql

SpecPair == InitPair /\ [][NextPair]_vars

\* A requirement and a version: requirement.New is handed up to MaxReqs
\* requirement strings, or the requirements of the package's tests, and the
\* result is asked whether a version satisfies it.
ReqStrings ==
    {Ops[k] \o <<" ", "1", ".", "1">> : k \in 1..Len(Ops)}
        \cup {<<"<", " ", "2">>,
              <<"~", ">", " ", "1", "-", "1", "a">>,
              <<"~", ">", " ", "1", ".", "1", "-", "a">>}

RECURSIVE ListsUpTo(_, _)
ListsUpTo(S, n) ==
    IF n = 0 THEN {<<>>}
    ELSE LET shorter == ListsUpTo(S, n - 1)
         IN  shorter \cup {Append(l, x) : l \in shorter, x \in S}

TestedStrings ==
    {<<>>,
     <<"1", ".", "1">>,
     <<"1", ".", "5">>,
     <<"2">>}

\* Test_IsSatisfiedBy and Test_TildeGT
TestRequirements ==
    {<<<<">", " ", "1", ".", "2">>,
       <<"<", " ", "1", ".", "4">>,
       <<"!", "=", " ", "1", ".", "3", ".", "3">>>>,
     <<<<"~", ">", " ", "3", ".", "5">>>>}

TestVersions ==
    {<<"1", ".", "3", ".", "5">>,
     <<"1", ".", "3", ".", "3">>,
     <<"3", ".", "5", ".", "1">>,
     <<"3", ".", "4">>}

InitReq ==
    /\ \/ /\ reqStrs \in ListsUpTo(ReqStrings, MaxReqs)
          /\ input \in TestedStrings
       \/ /\ reqStrs \in TestRequirements
          /\ input \in TestVersions
    /\ other = <<>>
    /\ v = Nil
    /\ o = Nil
    /\ req = Nil
    /\ call = "none"
    /\ ret = Nil
    /\ InitDefaults

\* req, err := requirement.New(reqStrs...)
CallRequirementNew ==
    /\ Running
    /\ req = Nil
    /\ LET r == RequirementNew(reqStrs)
       IN  /\ req' = r.req
           /\ call' = "requirement.New"
           /\ ret' = r
    /\ UNCHANGED <<input, other, reqStrs, v, o>>
    /\ DefaultsUnassigned

\* req.IsSatisfiedBy(v)
CallIsSatisfiedBy ==
    /\ Running
    /\ req # Nil
    /\ v # Nil
    /\ call' = "IsSatisfiedBy"
    /\ ret' = IsSatisfiedBy(req, v)
    /\ UNCHANGED <<input, other, reqStrs, v, o, req>>
    /\ DefaultsUnassigned

\* What the i-th specifier of the requirement returned.
ofSpecifier(r, i) == [panic |-> r.panic, bool |-> r.bool, index |-> i]

\* req.requirements[i].IsSatisfiedBy(v)
CallSpecifierIsSatisfiedBy ==
    /\ Running
    /\ req # Nil
    /\ v # Nil
    /\ \E i \in 1..Len(req.requirements) :
           /\ call' = "Specifier.IsSatisfiedBy"
           /\ ret' = ofSpecifier(SpecifierIsSatisfiedBy(req.requirements[i], v), i)
    /\ UNCHANGED <<input, other, reqStrs, v, o, req>>
    /\ DefaultsUnassigned

NextReq ==
    \/ CallNew
    \/ CallRequirementNew
    \/ CallIsSatisfiedBy
    \/ CallSpecifierIsSatisfiedBy

SpecReq == InitReq /\ [][NextReq]_vars

\* Requirement strings of every shape of the pattern: white space or none
\* before the operator, one of the seven operators or none, white space or
\* none before the version, a version, white space or none after it; and
\* strings the pattern does not match.
PatternVersions ==
    {<<"0">>,
     <<"0", ".", "a">>,
     <<"1", ".", "1">>,
     <<"1", ".", "3", ".", "5">>,
     <<"1", "-", "a">>}

PatternStrings ==
    {lead \o op \o gap \o ver \o trail :
        lead \in {<<>>, <<" ">>},
        op \in {Ops[k] : k \in 1..Len(Ops)} \cup {<<>>},
        gap \in {<<>>, <<" ">>},
        ver \in PatternVersions,
        trail \in {<<>>, <<" ">>}}

MalformedStrings ==
    {<<"1", ".">>,
     <<">", " ">>,
     <<"=", ">", " ", "1">>,
     <<"j", "u", "n", "k">>}

\* Each operator with the version 1.1.
OperatorStrings == {Ops[k] \o <<" ", "1", ".", "1">> : k \in 1..Len(Ops)}

\* The arguments of a call of Concat: none, one string (well-formed with
\* and without an operator, malformed) and two strings, the malformed one
\* first or last.
ConcatArguments ==
    {<<>>,
     <<<<">", " ", "1", ".", "1">>>>,
     <<<<"=", " ", "1", ".", "1">>>>,
     <<<<"<", " ", "2">>>>,
     <<<<"2">>>>,
     <<<<"j", "u", "n", "k">>>>,
     <<<<"<", " ", "2">>, <<"=", " ", "1", ".", "5">>>>,
     <<<<"<", " ", "2">>, <<"j", "u", "n", "k">>>>,
     <<<<"j", "u", "n", "k">>, <<"<", " ", "2">>>>}

\* Lists handed to New in which a malformed string is not the only string:
\* after a string with an operator, after a bare version, and two
\* malformed strings.
MixedLists ==
    {<<<<">", " ", "1", ".", "1">>, <<"j", "u", "n", "k">>>>,
     <<<<"2">>, <<"j", "u", "n", "k">>>>,
     <<<<"j", "u", "n", "k">>, <<"1", ".">>>>,
     <<<<"1", ".">>, <<"j", "u", "n", "k">>>>}

InitSet ==
    /\ reqStrs \in ListsUpTo(OperatorStrings, MaxReqs)
                     \cup {<<s>> : s \in PatternStrings \cup MalformedStrings}
                     \cup MixedLists
    /\ input = <<>>
    /\ other = <<>>
    /\ v = Nil
    /\ o = Nil
    /\ req = Nil
    /\ call = "none"
    /\ ret = Nil
    /\ InitDefaults

\* req, err := requirement.New(reqStrs...), in src/requirement/requirement.go
CallRequirement_New ==
    /\ Running
    /\ req = Nil
    /\ \E r \in {Requirement_New(reqStrs)} :
           /\ req' = r.req
           /\ ret' = r
    /\ call' = "Requirement_New"
    /\ UNCHANGED <<input, other, reqStrs, v, o>>
    /\ DefaultsUnassigned

\* What a call of Concat on receiver has done: the arguments, the receiver
\* before the call, and the *Requirement returned (nil after a failure).
ofConcat(requirements, receiver, done) ==
    [args   |-> requirements,
     before |-> receiver,
     req    |-> IF done.failed THEN Nil
                ELSE [requirements |-> done.requirements]]

\* req.Concat(requirements...): the receiver is changed in place.  Concat
\* is called on a set that holds no more specifiers than New was given.
CallConcat ==
    /\ Running
    /\ req # Nil
    /\ Len(req.requirements) <= Len(reqStrs)
    /\ \E requirements \in ConcatArguments :
           \E done \in {Concat(req, requirements)} :
               /\ req' = [requirements |-> done.requirements]
               /\ ret' = ofConcat(requirements, req, done)
    /\ call' = "Concat"
    /\ UNCHANGED <<input, other, reqStrs, v, o>>
    /\ DefaultsUnassigned

\* req.Concat(requirements...), in src/requirement/requirement.go
CallRequirement_Concat ==
    /\ Running
    /\ req # Nil
    /\ Len(req.requirements) <= Len(reqStrs)
    /\ \E requirements \in ConcatArguments :
           \E done \in {Requirement_Concat(req, requirements)} :
               /\ req' = [requirements |-> done.requirements]
               /\ ret' = ofConcat(requirements, req, done)
    /\ call' = "Requirement_Concat"
    /\ UNCHANGED <<input, other, reqStrs, v, o>>
    /\ DefaultsUnassigned

\* req.IsSpecific()
CallIsSpecific ==
    /\ Running
    /\ req # Nil
    /\ call' = "IsSpecific"
    /\ ret' = [bool |-> IsSpecific(req)]
    /\ UNCHANGED <<input, other, reqStrs, v, o, req>>
    /\ DefaultsUnassigned

\* A set of requirements: built by New of either file, grown by Concat and
\* asked whether it is specific.
NextSet ==
    \/ CallRequirementNew
    \/ CallRequirement_New
    \/ CallConcat
    \/ CallRequirement_Concat
    \/ CallIsSpecific

SpecSet == InitSet /\ [][NextSet]_vars

\* The library as one client uses it: two versions and a set of
\* requirements are constructed once and then handed to the operations of
\* both packages in any order.
LibraryVersions ==
    {<<"1", ".", "0">>,
     <<"1", ".", "2", ".", "a", "1">>,
     <<" ", "0", "1", " ">>,
     <<"1", "-", "1", "a">>}

LibraryOthers ==
    {<<"1">>,
     <<"1", ".", "2", ".", "b">>,
     <<"1", ".">>}

\* Lists of requirement strings: none, each default requirement, two
\* requirements, a malformed one.
LibraryRequirements ==
    {<<>>,
     <<<<">", "=", " ", "0">>>>,
     <<<<">", "=", " ", "0", ".", "a">>>>,
     <<<<"~", ">", " ", "1", ".", "1">>, <<"<", " ", "2">>>>,
     <<<<"j", "u", "n", "k">>>>}

InitLibrary ==
    /\ input \in LibraryVersions
    /\ other \in LibraryOthers
    /\ reqStrs \in LibraryRequirements
    /\ v = Nil
    /\ o = Nil
    /\ req = Nil
    /\ call = "none"
    /\ ret = Nil
    /\ InitDefaults

NextLibrary ==
    \/ CallNew
    \/ CallNewOther
    \/ CallIsPrerelease
    \/ CallRelease
    \/ CallBump
    \/ CallApproximateRecommendation
    \/ CallCompare
    \/ CallEql
    \/ CallRequirementNew
    \/ CallRequirement_New
    \/ CallConcat
    \/ CallRequirement_Concat
    \/ CallIsSatisfiedBy

SpecLibrary == InitLibrary /\ [][NextLibrary]_vars

-----------------------------------------------------------------------------
(* The version grammar, stated on the parts of a string.                   *)

\* The positions of character c in s.
PositionsOf(s, c) == {i \in 1..Len(s) : s[i] = c}

\* The k-th smallest element of a set of numbers.
Kth(S, k) == CHOOSE x \in S : Cardinality({y \in S : y < x}) = k - 1

\* The parts of s between the occurrences of c (strings.Split).
SplitOn(s, c) ==
    LET cuts == PositionsOf(s, c)
        n    == Cardinality(cuts)
        from(k) == IF k = 1 THEN 1 ELSE Kth(cuts, k - 1) + 1
        to(k)   == IF k = n + 1 THEN Len(s) ELSE Kth(cuts, k) - 1
    IN  [k \in 1..(n + 1) |-> SubSeq(s, from(k), to(k))]

AllIn(s, cls) == \A i \in 1..Len(s) : s[i] \in cls

\* digits ('.' alnum)*
ReleasePart(s) ==
    LET parts == SplitOn(s, ".")
    IN  /\ Len(parts[1]) > 0 /\ AllIn(parts[1], Digits)
        /\ \A k \in 2..Len(parts) : Len(parts[k]) > 0 /\ AllIn(parts[k], Alnum)

\* alnum-or-dash ('.' alnum-or-dash)*
PrereleasePart(s) ==
    LET parts == SplitOn(s, ".")
    IN  \A k \in 1..Len(parts) : Len(parts[k]) > 0 /\ AllIn(parts[k], AlnumDash)

\* digits ('.' alnum)* ('-' alnum-or-dash ('.' alnum-or-dash)*)?
VersionBody(s) ==
    IF PositionsOf(s, "-") = {} THEN ReleasePart(s)
    ELSE LET dash == Kth(PositionsOf(s, "-"), 1)
         IN  /\ ReleasePart(SubSeq(s, 1, dash - 1))
             /\ PrereleasePart(SubSeq(s, dash + 1, Len(s)))

\* s without its outer white space
Trimmed(s) ==
    LET inner == {i \in 1..Len(s) : s[i] \notin Space}
    IN  IF inner = {} THEN <<>>
        ELSE SubSeq(s, Kth(inner, 1), Kth(inner, Cardinality(inner)))

\* The anchored version grammar: white space, an optional version body,
\* white space.
InVersionGrammar(s) ==
    /\ AllIn(s, Space \cup AlnumDash \cup {"."})
    /\ Trimmed(s) = <<>> \/ VersionBody(Trimmed(s))

Blank(s) == AllIn(s, Space)

-----------------------------------------------------------------------------
(* Claims about version.New.                                               *)

\* C8: version.New(s) returns a nil version and a malformed-version error
\* exactly when s does not match the anchored version grammar, and a
\* version with a nil error exactly when it matches ("1." and "1.5-" do
\* not); New2(s) returns nil exactly when New(s) returns an error.
C8_NewAcceptsExactlyTheGrammar ==
    /\ call = "New" =>
          /\ InVersionGrammar(input) => ret.ver # Nil /\ ret.err = Nil
          /\ ~InVersionGrammar(input) =>
                ret.ver = Nil /\ ret.err = MalformedVersion(input)
          /\ input \in {<<"1", ".">>, <<"1", ".", "5", "-">>} => ret.ver = Nil
    /\ call = "New2" =>
          /\ (ret.ver = Nil) = ~InVersionGrammar(input)
          /\ (ret.ver = Nil) = (New(input).err # Nil)

\* C8 witness: New has refused "1.5-".
C8_Witness ==
    /\ call = "New"
    /\ input = <<"1", ".", "5", "-">>
    /\ ret.ver = Nil
    /\ ret.err # Nil

\* C9: for every input string that is empty or only white space, New
\* succeeds and the version's canonical string is "0".
C9_BlankInputIsZero ==
    (call = "New" /\ Blank(input)) =>
        /\ ret.err = Nil
        /\ ret.ver # Nil
        /\ Version(ret.ver) = <<"0">>

\* The number of '-' among the first i - 1 characters of s.
DashesBefore(s, i) == Cardinality({k \in 1..(i - 1) : s[k] = "-"})

\* Where the image of character i of s begins once every earlier '-' has
\* become five characters.
ImageStart(s, i) == i + 4 * DashesBefore(s, i)

PreMarker == <<".", "p", "r", "e", ".">>

\* s with every '-' replaced by ".pre."
DashesAsPre(s) ==
    [k \in 1..(Len(s) + 4 * DashesBefore(s, Len(s) + 1)) |->
        LET i == CHOOSE j \in 1..Len(s) :
                     /\ ImageStart(s, j) <= k
                     /\ k <= ImageStart(s, j) + (IF s[j] = "-" THEN 4 ELSE 0)
        IN  IF s[i] = "-" THEN PreMarker[k - ImageStart(s, i) + 1] ELSE s[i]]

\* The class of a character: digit, letter or separator.
ClassOf(c) ==
    IF c \in Digits THEN "digit" ELSE IF c \in Letters THEN "letter" ELSE "separator"

\* The maximal digit runs and maximal letter runs of s, left to right.
MaximalRuns(s) ==
    LET starts == {i \in 1..Len(s) :
                      /\ ClassOf(s[i]) # "separator"
                      /\ i = 1 \/ ClassOf(s[i - 1]) # ClassOf(s[i])}
        endOf(i) == CHOOSE j \in i..Len(s) :
                      /\ \A k \in i..j : ClassOf(s[k]) = ClassOf(s[i])
                      /\ j = Len(s) \/ ClassOf(s[j + 1]) # ClassOf(s[i])
    IN  [k \in 1..Cardinality(starts) |->
            SubSeq(s, Kth(starts, k), endOf(Kth(starts, k)))]

\* C10: for every accepted non-empty input s, New(s).Version() is s with
\* outer white space trimmed and every '-' replaced by ".pre." (so it holds
\* no '-'), and segments() is the left-to-right list of the maximal digit
\* runs and maximal letter runs of that string; "1.5-3" gives "1.5.pre.3"
\* with segments [1,5,pre,3], "2.3-0-0" gives [2,3,pre,0,pre,0].
C10_VersionAndSegments ==
    /\ (call = "Version" /\ input # <<>>) =>
          /\ ret.str = DashesAsPre(Trimmed(input))
          /\ PositionsOf(ret.str, "-") = {}
          /\ input = <<"1", ".", "5", "-", "3">> =>
                ret.str = <<"1", ".", "5", ".", "p", "r", "e", ".", "3">>
    /\ (call = "segments" /\ input # <<>>) =>
          /\ ret.strs = MaximalRuns(Version(v))
          /\ Version(v) = DashesAsPre(Trimmed(input))
          /\ input = <<"1", ".", "5", "-", "3">> =>
                ret.strs = <<<<"1">>, <<"5">>, <<"p", "r", "e">>, <<"3">>>>
          /\ input = <<"2", ".", "3", "-", "0", "-", "0">> =>
                ret.strs = <<<<"2">>, <<"3">>, <<"p", "r", "e">>, <<"0">>,
                             <<"p", "r", "e">>, <<"0">>>>

\* C10 witness: the segments of "2.3-0-0" have been computed.
C10_Witness ==
    /\ call = "segments"
    /\ input = <<"2", ".", "3", "-", "0", "-", "0">>
    /\ Len(ret.strs) = 6

-----------------------------------------------------------------------------
(* Claims about the order of versions.                                     *)

\* C7: a prerelease sorts below its release: for every version p accepted
\* by New with IsPrerelease() true, p.Compare(p.Release()) == -1 and
\* p.Release().Compare(p) == 1.
C7_PrereleaseBelowRelease ==
    (v # Nil /\ o # Nil /\ IsPrerelease(v) /\ o = Release(v)) =>
        /\ call = "Compare" => ret.int = -1
        /\ call = "CompareOther" => ret.int = 1

\* C3: antisymmetry of Compare: for all strings a and b accepted by
\* version.New, New(a).Compare(New(b)) == -New(b).Compare(New(a)).
C3_CompareAntisymmetric ==
    /\ call = "Compare" => ret.int = -Compare(o, v)
    /\ call = "CompareOther" => ret.int = -Compare(v, o)

Rep_0_9 == [version |-> <<"0", ".", "9">>]

Rep_1_0 == [version |-> <<"1", ".", "0">>]

Rep_1_0_a_2 == [version |-> <<"1", ".", "0", ".", "a", ".", "2">>]

Rep_1_0_b1 == [version |-> <<"1", ".", "0", ".", "b", "1">>]

\* C4: sorting 0.9, 1.0, 1.0.a.2, 1.0.b1 by Compare gives, newest to
\* oldest, 1.0, 1.0.b1, 1.0.a.2, 0.9: Compare(1.0, 1.0.b1) == 1,
\* Compare(1.0.b1, 1.0.a.2) == 1 and Compare(1.0.a.2, 0.9) == 1, and the
\* order is transitive on this set.
C4_RepresentativeOrder ==
    /\ call = "Compare" =>
          /\ (v = Rep_1_0 /\ o = Rep_1_0_b1) => ret.int = 1
          /\ (v = Rep_1_0_b1 /\ o = Rep_1_0_a_2) => ret.int = 1
          /\ (v = Rep_1_0_a_2 /\ o = Rep_0_9) => ret.int = 1
    /\ LET Rep == {Rep_0_9, Rep_1_0, Rep_1_0_a_2, Rep_1_0_b1}
       IN  (call = "Compare" /\ v \in Rep /\ o \in Rep /\ ret.int = 1) =>
               \A z \in Rep : Compare(o, z) = 1 => Compare(v, z) = 1

\* A version made only of numeric segments.
NumericOnly(ver) == ~HasLetter(ver.version)

\* The integer at position i of the segments, 0 beyond their end.
IntAt(segs, i) == IF i <= Len(segs) THEN DecimalValue(segs[i]) ELSE 0

\* The sign of the position-by-position comparison of the segments read as
\* integers, the shorter sequence padded with 0.
NumericOrder(a, b) ==
    LET n == IF Len(a) > Len(b) THEN Len(a) ELSE Len(b)
        differ == {i \in 1..n : IntAt(a, i) # IntAt(b, i)}
    IN  IF differ = {} THEN 0
        ELSE IF IntAt(a, Kth(differ, 1)) > IntAt(b, Kth(differ, 1)) THEN 1
        ELSE -1

\* C5: for any two valid versions made only of numeric segments, Compare
\* returns the sign of the position-by-position comparison of their
\* segments read as integers (the shorter padded with 0), the first
\* position that differs deciding, 0 when none differs.
C5_NumericCompare ==
    (call = "Compare" /\ NumericOnly(v) /\ NumericOnly(o)) =>
        ret.int = NumericOrder(MaximalRuns(Version(v)), MaximalRuns(Version(o)))

\* C6: Eql is strictly finer than Compare-equality: Eql(a,b) implies
\* Compare(a,b) == 0 (Compare(a,a) == 0 and Eql(a,a) is true), while
\* versions that differ only in a trailing zero segment, such as "1" and
\* "1.0", have Compare == 0 but Eql == false.
C6_EqlFinerThanCompare ==
    /\ call = "Eql" =>
          /\ ret.bool => Compare(v, o) = 0
          /\ TrimSpace(input) = TrimSpace(other) => ret.bool
          /\ (Version(v) # <<>> /\ Version(o) = Version(v) \o <<".", "0">>) =>
                ~ret.bool
    /\ call = "Compare" =>
          /\ Eql(v, o) => ret.int = 0
          /\ TrimSpace(input) = TrimSpace(other) => ret.int = 0
          /\ (Version(v) # <<>> /\ Version(o) = Version(v) \o <<".", "0">>) =>
                ret.int = 0

\* C6 witness: "1" and "1.0" have been found not Eql.
C6_Witness ==
    /\ call = "Eql"
    /\ Version(v) = <<"1">>
    /\ Version(o) = <<"1", ".", "0">>
    /\ ~ret.bool
    /\ Compare(v, o) = 0

-----------------------------------------------------------------------------
(* Claims about requirements.                                              *)

OpEq == <<"=">>

OpNe == <<"!", "=">>

OpGt == <<">">>

OpLt == <<"<">>

OpGe == <<">", "=">>

OpLe == <<"<", "=">>

OpTilde == <<"~", ">">>

\* The table of the six comparison operators: whether operator op holds
\* when the specifier's version compares as c with the tested version.
OperatorHolds(op, c) ==
    IF op = OpEq THEN c = 0
    ELSE IF op = OpNe THEN c # 0
    ELSE IF op = OpGt THEN c = -1
    ELSE IF op = OpLt THEN c = 1
    ELSE IF op = OpGe THEN c = 0 \/ c = -1
    ELSE c = 0 \/ c = 1

\* Whether specifier rs is satisfied by ver: the table for the six
\* comparison operators, the library's answer for '~>'.
SpecifierHolds(rs, ver) ==
    IF rs.Operator = OpTilde THEN tildeGT(rs, ver) = Returned(TRUE)
    ELSE OperatorHolds(rs.Operator, Compare(rs.Version, ver))

TestRequirement ==
    <<<<">", " ", "1", ".", "2">>,
      <<"<", " ", "1", ".", "4">>,
      <<"!", "=", " ", "1", ".", "3", ".", "3">>>>

\* C1: Requirement.IsSatisfiedBy(v) is true iff every specifier (op, s) of
\* the set is satisfied by v, where with c = s.Compare(v): '=' holds iff
\* c == 0, '!=' iff c != 0, '>' iff c == -1, '<' iff c == 1, '>=' iff c is
\* 0 or -1, '<=' iff c is 0 or 1; a set with no specifiers is satisfied
\* by every version; [> 1.2, < 1.4, != 1.3.3] is satisfied by 1.3.5 and
\* not by 1.3.3.
C1_SatisfiedIffEverySpecifier ==
    /\ (call = "IsSatisfiedBy" /\ ~ret.panic) =>
          /\ ret.bool =
                \A i \in 1..Len(req.requirements) :
                    SpecifierHolds(req.requirements[i], v)
          /\ Len(req.requirements) = 0 => ret.bool
          /\ reqStrs = TestRequirement =>
                /\ input = <<"1", ".", "3", ".", "5">> => ret.bool
                /\ input = <<"1", ".", "3", ".", "3">> => ~ret.bool
    /\ (call = "IsSatisfiedBy" /\ ret.panic) =>
          \E i \in 1..Len(req.requirements) :
              req.requirements[i].Operator = OpTilde
    /\ (call = "Specifier.IsSatisfiedBy"
            /\ req.requirements[ret.index].Operator # OpTilde) =>
          /\ ~ret.panic
          /\ ret.bool =
                OperatorHolds(req.requirements[ret.index].Operator,
                              Compare(req.requirements[ret.index].Version, v))

\* C1 witness: [> 1.2, < 1.4, != 1.3.3] has been found not satisfied by
\* 1.3.3, its first two specifiers holding.
C1_Witness ==
    /\ call = "IsSatisfiedBy"
    /\ reqStrs = TestRequirement
    /\ input = <<"1", ".", "3", ".", "3">>
    /\ ret = Returned(FALSE)
    /\ SpecifierHolds(req.requirements[1], v)
    /\ SpecifierHolds(req.requirements[2], v)

\* Release as specified: the segments before the first alphabetic segment,
\* joined with '.'; the version itself when it is no prerelease.
ReleaseAsSpecified(ver) ==
    IF ~HasLetter(ver.version) THEN ver
    ELSE LET segs  == MaximalRuns(ver.version)
             first == Kth({i \in 1..Len(segs) : HasLetter(segs[i])}, 1)
         IN  [version |-> Join(SubSeq(segs, 1, first - 1), <<".">>)]

\* Bump as specified: the segments before the first alphabetic segment,
\* the last of them dropped when more than one remains, the then-last one
\* incremented, joined with '.'.
BumpAsSpecified(ver) ==
    LET segs  == MaximalRuns(ver.version)
        alpha == {i \in 1..Len(segs) : HasLetter(segs[i])}
        kept  == IF alpha = {} THEN segs
                 ELSE SubSeq(segs, 1, Kth(alpha, 1) - 1)
        short == IF Len(kept) > 1 THEN SubSeq(kept, 1, Len(kept) - 1) ELSE kept
    IN  [version |->
            Join([short EXCEPT ![Len(short)] =
                      Itoa(DecimalValue(short[Len(short)]) + 1)], <<".">>)]

\* C2: for every valid specifier version s and every valid version v, the
\* specifier '~> s' is satisfied by v iff v satisfies '>= s' and
\* s.Release().Bump().Release() compares strictly greater than v, where
\* Release truncates at the first alphabetic segment and Bump is as
\* specified; '~> 3.5' is satisfied by 3.5.1 and not by 3.4.
C2_TildeIsPessimistic ==
    (call = "Specifier.IsSatisfiedBy"
        /\ req.requirements[ret.index].Operator = OpTilde) =>
        LET s     == req.requirements[ret.index].Version
            upper == ReleaseAsSpecified(BumpAsSpecified(ReleaseAsSpecified(s)))
        IN  /\ ~ret.panic
            /\ ret.bool =
                  (/\ OperatorHolds(OpGe, Compare(s, v))
                   /\ Compare(upper, v) = 1)

-----------------------------------------------------------------------------
(* Claims about Bump, Release and ApproximateRecommendation.               *)

\* C12: for every valid version v, Bump() returns the version whose
\* segments are v's segments before the first alphabetic segment, with the
\* last of them dropped when more than one remains and the then-last
\* segment incremented by one, joined with '.'; 1.1.13.4-3 bumps to 1.1.14
\* and 5.3.1.b.2 bumps to 5.4.
C12_BumpAsSpecified ==
    (call = "Bump" /\ v.version # <<>>) =>
        /\ ~ret.panic
        /\ ret.err = Nil
        /\ ret.ver = BumpAsSpecified(v)
        /\ input = <<"1", ".", "1", ".", "1", "3", ".", "4", "-", "3">> =>
              ret.ver.version = <<"1", ".", "1", ".", "1", "4">>
        /\ input = <<"5", ".", "3", ".", "1", ".", "b", ".", "2">> =>
              ret.ver.version = <<"5", ".", "4">>

\* C13: for every string s accepted by version.New, New(s).Bump() returns
\* a non-nil version and a nil error, and does not panic.
C13_BumpNeverAborts ==
    call = "Bump" =>
        /\ ~ret.panic
        /\ ret.ver # Nil
        /\ ret.err = Nil

\* C14: Release() of a version that is no prerelease is the receiver;
\* Release() of a prerelease is a new version whose string is the segments
\* before the first segment that holds a letter, joined with '.', and so
\* never a prerelease; 1.2.1-2 releases to 1.2.1.
C14_ReleaseAsSpecified ==
    call = "Release" =>
        /\ ~HasLetter(v.version) => ret.ver = v
        /\ HasLetter(v.version) =>
              /\ ret.ver = ReleaseAsSpecified(v)
              /\ ~HasLetter(ret.ver.version)
        /\ input = <<"1", ".", "2", ".", "1", "-", "2">> =>
              ret.ver.version = <<"1", ".", "2", ".", "1">>

\* ApproximateRecommendation as specified: "~> ", the first two of the
\* segments before the first alphabetic segment ("0" added when there is
\* only one), joined with '.', and ".a" for a prerelease.
ApproximateRecommendationAsSpecified(ver) ==
    LET segs  == MaximalRuns(ver.version)
        alpha == {i \in 1..Len(segs) : HasLetter(segs[i])}
        kept  == IF alpha = {} THEN segs
                 ELSE SubSeq(segs, 1, Kth(alpha, 1) - 1)
        two   == IF Len(kept) >= 2 THEN SubSeq(kept, 1, 2)
                 ELSE kept \o <<<<"0">>>>
    IN  <<"~", ">", " ">> \o two[1] \o <<".">> \o two[2]
            \o (IF HasLetter(ver.version) THEN <<".", "a">> ELSE <<>>)

\* C15: for every valid version v, ApproximateRecommendation() is "~> "
\* followed by the first two of v's segments that precede the first
\* alphabetic segment (padded with "0"), joined with '.', followed by ".a"
\* iff v is a prerelease; the two segments shown are numeric; 1.3.1-4
\* gives "~> 1.3.a" and 1.3.5.7 gives "~> 1.3".
C15_ApproximateRecommendationAsSpecified ==
    (call = "ApproximateRecommendation" /\ v.version # <<>>) =>
        /\ ret.str = ApproximateRecommendationAsSpecified(v)
        /\ LET shown == SplitOn(SubSeq(ret.str, 4, Len(ret.str)), ".")
           IN  /\ Len(shown) >= 2
               /\ AllIn(shown[1], Digits)
               /\ AllIn(shown[2], Digits)
        /\ input = <<"1", ".", "3", ".", "1", "-", "4">> =>
              ret.str = <<"~", ">", " ", "1", ".", "3", ".", "a">>
        /\ input = <<"1", ".", "3", ".", "5", ".", "7">> =>
              ret.str = <<"~", ">", " ", "1", ".", "3">>

-----------------------------------------------------------------------------
(* Claims about the canonical form.                                        *)

\* C18: the canonical string of a version produced by New matches the
\* version grammar: for every s accepted by New, New(New(s).Version())
\* succeeds and yields a version with the same string and the same
\* canonical segments as New(s).
C18_CanonicalStringIsAVersion ==
    call = "Version" =>
        /\ InVersionGrammar(ret.str)
        /\ New(ret.str).err = Nil
        /\ New(ret.str).ver # Nil
        /\ Version(New(ret.str).ver) = Version(v)
        /\ canonicalSegments(New(ret.str).ver) = canonicalSegments(v)

\* A segment of digits only whose value is zero.
ZeroSegment(seg) == Len(seg) > 0 /\ AllIn(seg, {"0"})

\* run without its longest suffix of zero segments
WithoutTrailingZeros(run) ==
    LET keep == {i \in 1..Len(run) : ~ZeroSegment(run[i])}
    IN  IF keep = {} THEN <<>>
        ELSE SubSeq(run, 1, Kth(keep, Cardinality(keep)))

\* canonicalSegments as specified: the segments split at the first segment
\* that holds a letter, each run without its trailing zero segments.
CanonicalAsSpecified(ver) ==
    LET segs  == MaximalRuns(ver.version)
        alpha == {i \in 1..Len(segs) : HasLetter(segs[i])}
        first == IF alpha = {} THEN Len(segs) + 1 ELSE Kth(alpha, 1)
    IN  WithoutTrailingZeros(SubSeq(segs, 1, first - 1))
            \o WithoutTrailingZeros(SubSeq(segs, first, Len(segs)))

\* C19: canonicalSegments() splits the segments at the first segment that
\* holds a letter into a numeric run and an alphanumeric run, removes from
\* the end of each run the longest suffix of zero-valued numeric segments,
\* and concatenates the two runs; "2.3-0-0" gives [2,3,pre,0,pre], "1.0"
\* gives [1] and "1.0.a" gives [1,a].
C19_CanonicalSegmentsAsSpecified ==
    /\ call = "splitSegments" =>
          LET segs  == MaximalRuns(v.version)
              alpha == {i \in 1..Len(segs) : HasLetter(segs[i])}
          IN  /\ ret.numerics \o ret.stringset = segs
              /\ \A i \in 1..Len(ret.numerics) : ~HasLetter(ret.numerics[i])
              /\ alpha # {} => /\ Len(ret.stringset) > 0
                               /\ HasLetter(ret.stringset[1])
              /\ alpha = {} => ret.stringset = <<>>
    /\ call = "canonicalSegments" =>
          /\ ret.strs = CanonicalAsSpecified(v)
          /\ input = <<"2", ".", "3", "-", "0", "-", "0">> =>
                ret.strs = <<<<"2">>, <<"3">>, <<"p", "r", "e">>, <<"0">>,
                             <<"p", "r", "e">>>>
          /\ input = <<"1", ".", "0">> => ret.strs = <<<<"1">>>>
          /\ input = <<"1", ".", "0", ".", "a">> =>
                ret.strs = <<<<"1">>, <<"a">>>>

\* C19 witness: the canonical segments of "2.3-0-0" have been computed, one
\* zero dropped from the end of the alphanumeric run.
C19_Witness ==
    /\ call = "canonicalSegments"
    /\ input = <<"2", ".", "3", "-", "0", "-", "0">>
    /\ Len(ret.strs) = 5
    /\ Len(segments(v)) = 6

\* The segment at position i of segs, "0" beyond their end.
PaddedAt(segs, i) == IF i <= Len(segs) THEN segs[i] ELSE <<"0">>

\* a and b, padded with "0" to the same length, hold alphabetic segments at
\* the same positions and equal integers at every other position.
SameButForSpelling(a, b) ==
    LET n == IF Len(a) > Len(b) THEN Len(a) ELSE Len(b)
    IN  \A i \in 1..n :
            /\ HasLetter(PaddedAt(a, i)) = HasLetter(PaddedAt(b, i))
            /\ ~HasLetter(PaddedAt(a, i)) =>
                  DecimalValue(PaddedAt(a, i)) = DecimalValue(PaddedAt(b, i))

\* C20: alphabetic segments are never ordered against each other: when the
\* padded canonical segments of two valid versions hold alphabetic segments
\* at the same positions and equal integers at every other position,
\* Compare returns 0, however the alphabetic segments are spelled (1.0.a
\* against 1.0.b); two unequal alphabetic segments are a tie and the next
\* position decides.
C20_AlphabeticSegmentsTie ==
    /\ (call = "Compare"
          /\ SameButForSpelling(CanonicalAsSpecified(v), CanonicalAsSpecified(o)))
          => ret.int = 0
    /\ (call = "Compare"
          /\ Version(v) = <<"1", ".", "0", ".", "a">>
          /\ Version(o) = <<"1", ".", "0", ".", "b">>) => ret.int = 0
    /\ (call = "Compare" /\ v = Rep_1_0_b1 /\ o = Rep_1_0_a_2) => ret.int = -1

-----------------------------------------------------------------------------
(* Claims about sets of requirements.                                      *)

OperatorCharacters == {"!", "=", ">", "<", "~"}

OperatorTokens == {OpEq, OpNe, OpGt, OpLt, OpGe, OpLe, OpTilde}

\* The operator characters s begins with.
LeadingOperator(s) ==
    LET others == {i \in 1..Len(s) : s[i] \notin OperatorCharacters}
    IN  IF others = {} THEN s ELSE SubSeq(s, 1, Kth(others, 1) - 1)

\* The operator token of a requirement string, empty when it has none.
OperatorOf(s) == LeadingOperator(Trimmed(s))

\* What follows the operator token, without outer white space.
VersionOf(s) ==
    Trimmed(SubSeq(Trimmed(s), Len(OperatorOf(s)) + 1, Len(Trimmed(s))))

\* The requirement grammar: white space, an optional operator, white space,
\* a version, white space.
InRequirementGrammar(s) ==
    /\ AllIn(s, Space \cup OperatorCharacters \cup AlnumDash \cup {"."})
    /\ OperatorOf(s) = <<>> \/ OperatorOf(s) \in OperatorTokens
    /\ VersionOf(s) # <<>>
    /\ VersionBody(VersionOf(s))

\* C11: for every string of the requirement grammar, requirement.New on
\* that string succeeds and yields one specifier whose operator is the
\* operator token of the string, or '=' for a bare version such as
\* "1.3.5", and whose version is the version parsed from the rest; '>=' is
\* not split into '>' or '='.
C11_NewParsesTheGrammar ==
    (call \in {"requirement.New", "Requirement_New"}
        /\ Len(reqStrs) = 1
        /\ InRequirementGrammar(reqStrs[1])) =>
        /\ ret.err = Nil
        /\ ret.req # Nil
        /\ Len(ret.req.requirements) = 1
        /\ ret.req.requirements[1].Operator =
              (IF OperatorOf(reqStrs[1]) = <<>> THEN OpEq
               ELSE OperatorOf(reqStrs[1]))
        /\ ret.req.requirements[1].Version =
              [version |-> DashesAsPre(VersionOf(reqStrs[1]))]

\* C16: Concat returns nil whenever one of its input strings is malformed,
\* whatever the receiving set holds, a set without specifiers included;
\* when every input is well-formed it returns the receiver.
C16_ConcatFailsOnMalformedInput ==
    call \in {"Concat", "Requirement_Concat"} =>
        /\ (\E i \in 1..Len(ret.args) : ~InRequirementGrammar(ret.args[i]))
              => ret.req = Nil
        /\ (\A i \in 1..Len(ret.args) : InRequirementGrammar(ret.args[i]))
              => ret.req = req

\* C17 as claimed: IsSpecific() is true iff the set has more than one
\* specifier, or has no specifier, or its single specifier's operator is
\* neither '>' nor '<'.
C17_IsSpecificAsClaimed ==
    call = "IsSpecific" =>
        ret.bool = (\/ Len(req.requirements) > 1
                    \/ Len(req.requirements) = 0
                    \/ req.requirements[1].Operator \notin {OpGt, OpLt})

\* C17 amended: IsSpecific() is true iff the set has more than one
\* specifier, or has no specifier, or its single specifier's operator is
\* neither '>' nor '>='.
C17_IsSpecificAmended ==
    call = "IsSpecific" =>
        ret.bool = (\/ Len(req.requirements) > 1
                    \/ Len(req.requirements) = 0
                    \/ req.requirements[1].Operator \notin {OpGt, OpGe})

\* C17 witness: a set whose only specifier is '< 1.1' is specific.
C17_Witness ==
    /\ call = "IsSpecific"
    /\ Len(req.requirements) = 1
    /\ req.requirements[1].Operator = OpLt
    /\ ret.bool

\* The specifier a well-formed requirement string stands for.
SpecifierOf(s) ==
    Specifier(IF OperatorOf(s) = <<>> THEN OpEq ELSE OperatorOf(s),
              [version |-> DashesAsPre(VersionOf(s))])

\* One copy of new for each specifier of present, from the k-th on, that
\* has another operator and a version that does not compare equal.
RECURSIVE CopiesFor(_, _, _)
CopiesFor(present, k, new) ==
    IF k > Len(present) THEN <<>>
    ELSE (IF \/ present[k].Operator = new.Operator
             \/ Compare(new.Version, present[k].Version) = 0
              THEN <<>> ELSE <<new>>)
             \o CopiesFor(present, k + 1, new)

\* The set after the strings from the j-th on have been processed in order.
RECURSIVE ConcatAsSpecified(_, _, _)
ConcatAsSpecified(present, strs, j) ==
    IF j > Len(strs) THEN present
    ELSE ConcatAsSpecified(
             present \o CopiesFor(present, 1, SpecifierOf(strs[j])), strs, j + 1)

\* C21: Concat on well-formed inputs processes the new strings in order;
\* for each new string and each specifier present in the set when the
\* processing of that string begins, it appends one copy of the parsed new
\* specifier unless its operator equals that specifier's operator or its
\* version compares equal to that specifier's version.  Nothing is appended
\* to a set with no specifiers, and the specifiers the set held stay where
\* they were.
C21_ConcatAppendsPerDissimilar ==
    (call \in {"Concat", "Requirement_Concat"}
        /\ \A i \in 1..Len(ret.args) : InRequirementGrammar(ret.args[i])) =>
        /\ ret.req # Nil
        /\ req.requirements =
              ConcatAsSpecified(ret.before.requirements, ret.args, 1)

\* The specifiers a *Requirement holds; none when it is nil.
Held(r) ==
    IF r = Nil THEN {}
    ELSE {r.requirements[i] : i \in 1..Len(r.requirements)}

\* An operator of the seven and a version that is not nil and that
\* version.New accepts.
ValidSpecifier(rs) ==
    /\ rs.Operator \in OperatorTokens
    /\ rs.Version # Nil
    /\ InVersionGrammar(rs.Version.version)
    /\ New(rs.Version.version).err = Nil

\* The first string of the list that is not of the requirement grammar.
FirstMalformed(strs) ==
    strs[Kth({i \in 1..Len(strs) : ~InRequirementGrammar(strs[i])}, 1)]

SpecifiersValid ==
    \A rs \in Held(req) \cup
              (IF call \in {"Concat", "Requirement_Concat"}
                  THEN Held(ret.req) ELSE {}) : ValidSpecifier(rs)

NewReportsFirstMalformed ==
    (call \in {"requirement.New", "Requirement_New"}
        /\ \E i \in 1..Len(reqStrs) : ~InRequirementGrammar(reqStrs[i])) =>
        /\ ret.req = Nil
        /\ ret.err = [msg |-> "unable to parse requirement",
                      arg |-> FirstMalformed(reqStrs)]

\* C22: after any sequence of requirement.New and Concat calls, successful
\* or failing, every specifier a Requirement holds has an operator that is
\* one of the seven tokens and a version that is not nil and validly
\* parsed; requirement.New on a list that contains a malformed string
\* returns a nil Requirement and the error of the first malformed string.
C22_SpecifiersValidAndFirstError ==
    SpecifiersValid /\ NewReportsFirstMalformed

-----------------------------------------------------------------------------
(* Claims about what the operations leave alone.                           *)

\* The canonical string of a version: its canonical segments joined.
CanonicalString(ver) == Join(canonicalSegments(ver), <<".">>)

\* The two default singletons are ('>=', "0") and ('>=', "0.a").
SingletonsStay ==
    /\ DefaultRequirement.Operator = OpGe
    /\ Version(DefaultRequirement.Version) = <<"0">>
    /\ DefaultPrereleaseRequirement.Operator = OpGe
    /\ Version(DefaultPrereleaseRequirement.Version) = <<"0", ".", "a">>

\* A call leaves every version that was constructed before it as it was:
\* the receiver, the argument (unless the client stores the result of
\* Release or Bump in that variable) and the versions of the specifiers
\* the set held.
VersionsStay ==
    /\ v # Nil =>
          /\ v' # Nil
          /\ CanonicalString(v') = CanonicalString(v)
    /\ (o # Nil /\ call' \notin {"Release", "Bump"}) =>
          /\ o' # Nil
          /\ CanonicalString(o') = CanonicalString(o)
    /\ req # Nil =>
          /\ req' # Nil
          /\ \A i \in 1..Len(req.requirements) :
                /\ i <= Len(req'.requirements)
                /\ CanonicalString(req'.requirements[i].Version) =
                      CanonicalString(req.requirements[i].Version)

====
